---- MODULE Spec2Model ----
(***************************************************************************)
(* Crop price forecaster (src/app.py): the Streamlit script as a state     *)
(* machine.  One script run is one step.  Strings that the code splits or  *)
(* concatenates are sequences of tokens; the texts "District_" and         *)
(* "Commodity_" are tokens of their own, so a column name such as          *)
(* District_New_District_East is <<"District_","New_","District_","East">>.*)
(* Prices are fixed-point numbers, PriceScale units to one rupee.          *)
(***************************************************************************)
EXTENDS Integers, Sequences, FiniteSets, TLC

\* ---------------------------------------------------------------- bounds
MaxDistricts == 2      \* length of all_districts in a direct call
MaxSeed == 1           \* seeds of the random stream, 0..MaxSeed
PriceScale == 2        \* fixed-point resolution of a price

\* ------------------------------------------------------------ python text
DISTRICT_PREFIX == "District_"
COMMODITY_PREFIX == "Commodity_"
SELECT_DISTRICT == <<"Select District...">>
SELECT_COMMODITY == <<"Select Commodity...">>

\* Code-point order of the tokens used (no token is a prefix of another).
TokenRank(t) ==
  CASE t = "Commodity_" -> 1
    [] t = "Day" -> 2
    [] t = "District_" -> 3
    [] t = "East" -> 4
    [] t = "Goa" -> 5
    [] t = "Grade_Encoded" -> 6
    [] t = "Month" -> 7
    [] t = "Nashik" -> 8
    [] t = "New_" -> 9
    [] t = "Pune" -> 10
    [] t = "Select Commodity..." -> 11
    [] t = "Select District..." -> 12
    [] t = "Tea" -> 13
    [] t = "Wheat" -> 14
    [] t = "Year" -> 15
    [] OTHER -> 0

RECURSIVE StrLess(_, _)
\* str.__lt__: the first differing position decides, a proper prefix is smaller.
StrLess(a, b) ==
  IF b = <<>> THEN FALSE
  ELSE IF a = <<>> THEN TRUE
  ELSE IF Head(a) = Head(b) THEN StrLess(Tail(a), Tail(b))
  ELSE TokenRank(Head(a)) < TokenRank(Head(b))

\* str.startswith(prefix)
StartsWith(s, prefix) == Len(s) >= 1 /\ s[1] = prefix

RECURSIVE SplitFrom(_, _, _, _)
\* The pieces of s[i..] cut at every occurrence of sep; cur is the open piece.
SplitFrom(s, sep, i, cur) ==
  IF i > Len(s) THEN <<cur>>
  ELSE IF s[i] = sep THEN <<cur>> \o SplitFrom(s, sep, i + 1, <<>>)
  ELSE SplitFrom(s, sep, i + 1, Append(cur, s[i]))

\* str.split(sep): every occurrence of sep cuts, not only the first.
Split(s, sep) == SplitFrom(s, sep, 1, <<>>)

\* f'District_{district}' and f'Commodity_{commodity}'
PrefixName(prefix, value) == <<prefix>> \o value

RECURSIVE Insert(_, _)
Insert(x, sorted) ==
  IF sorted = <<>> THEN <<x>>
  ELSE IF StrLess(x, Head(sorted)) THEN <<x>> \o sorted
  ELSE <<Head(sorted)>> \o Insert(x, Tail(sorted))

RECURSIVE Sorted(_)
\* sorted(list): ascending, stable, duplicates kept.
Sorted(l) == IF l = <<>> THEN <<>> ELSE Insert(l[Len(l)], Sorted(SubSeq(l, 1, Len(l) - 1)))

InList(x, l) == \E i \in 1..Len(l) : l[i] = x

RECURSIVE Filter(_, _, _)
\* [f(col) for col in l if col.startswith(prefix)] with f = split(prefix)[1]
Filter(l, prefix, i) ==
  IF i > Len(l) THEN <<>>
  ELSE IF StartsWith(l[i], prefix)
       THEN <<Split(l[i], prefix)[2]>> \o Filter(l, prefix, i + 1)
       ELSE Filter(l, prefix, i + 1)

\* ---------------------------------------------------------------- assets
NUMERIC_COLUMNS == << <<"Year">>, <<"Month">>, <<"Day">>, <<"Grade_Encoded">> >>

\* The hardcoded schema of the two except branches.
\* A hardcoded schema of the numeric columns alone.
NUMERIC_ONLY_COLUMNS == NUMERIC_COLUMNS

FALLBACK_COLUMNS ==
  NUMERIC_COLUMNS \o << <<"District_", "Pune">>, <<"Commodity_", "Wheat">> >>

\* One-hot columns a schema artifact may hold, in the artifact's order.  The
\* last is the column of a district named New_District_East.
ColumnPool ==
  << <<"District_", "Pune">>,
     <<"Commodity_", "Wheat">>,
     <<"District_", "Nashik">>,
     <<"District_", "New_", "District_", "East">> >>

RECURSIVE Pick(_, _)
\* The columns of the pool at the positions in mask, in pool order.
Pick(mask, i) ==
  IF i > Len(ColumnPool) THEN <<>>
  ELSE IF i \in mask THEN <<ColumnPool[i]>> \o Pick(mask, i + 1)
  ELSE Pick(mask, i + 1)

\* The schema artifacts: the numeric columns, then any of the one-hot columns.
Schemas == { NUMERIC_COLUMNS \o Pick(mask, 1) : mask \in SUBSET (1..Len(ColumnPool)) }

None == [loaded |-> FALSE, bias |-> 0, monthW |-> 0, catW |-> 0]

\* The model artifacts: regressors whose predict is a fixed function of the
\* input row.  The first ignores the one-hot flags, the second does not.
Models ==
  { [loaded |-> TRUE, bias |-> 4000 * PriceScale + 1, monthW |-> 3, catW |-> 0],
    [loaded |-> TRUE, bias |-> 2500 * PriceScale, monthW |-> 1, catW |-> 7] }

\* What joblib.load does: returns the artifact or raises.
ModelLoads ==
  { [exc |-> "none", value |-> m] : m \in Models }
    \cup { [exc |-> e, value |-> None] : e \in {"FileNotFoundError", "Exception"} }

SchemaLoads ==
  { [exc |-> "none", value |-> s] : s \in Schemas }
    \cup { [exc |-> e, value |-> <<>>] : e \in {"FileNotFoundError", "Exception"} }

\* The schema artifact is not read when the model artifact failed to load.
NotRead == [exc |-> "not read", value |-> <<>>]

\* except FileNotFoundError: both globals are reset, whatever was bound so far.
ExceptFileNotFoundError(bound_model) ==
  [rf_model |-> None, ALL_COLUMNS |-> FALLBACK_COLUMNS, raised |-> FALSE]

\* An except clause that resets the schema and leaves rf_model as the try bound it.
ExceptKeepsModel(bound_model) ==
  [rf_model |-> bound_model, ALL_COLUMNS |-> FALLBACK_COLUMNS, raised |-> FALSE]

\* except Exception: the same reset.
ExceptException(bound_model) ==
  [rf_model |-> None, ALL_COLUMNS |-> FALLBACK_COLUMNS, raised |-> FALSE]

\* The body of load_assets: try the two loads in turn; the first exception
\* goes to the first except clause that matches it.
load_assets(modelLoad, schemaLoad) ==
  LET exc == IF modelLoad.exc # "none" THEN modelLoad.exc ELSE schemaLoad.exc
      bound_model == IF modelLoad.exc # "none" THEN None ELSE modelLoad.value
  IN IF exc = "none"
     THEN [rf_model |-> modelLoad.value, ALL_COLUMNS |-> schemaLoad.value, raised |-> FALSE]
     ELSE IF exc = "FileNotFoundError" THEN ExceptFileNotFoundError(bound_model)
     ELSE IF exc \in {"Exception"} THEN ExceptException(bound_model)
     ELSE [rf_model |-> bound_model, ALL_COLUMNS |-> <<>>, raised |-> TRUE]

\* What the two joblib.load calls of a run of the body did.
Attempt(modelLoad, schemaLoad) ==
  IF modelLoad.exc # "none" THEN <<modelLoad, NotRead>> ELSE <<modelLoad, schemaLoad>>

EmptyCache == [filled |-> FALSE, value |-> ExceptException(None)]

\* st.cache_resource keeps the value the body returned.
\* A cache that keeps nothing: the body runs again on the next call.
CacheDrop(value) == [filled |-> FALSE, value |-> value]

CacheStore(value) == [filled |-> TRUE, value |-> value]

\* The artifact reads a call of load_assets can meet: none on a cache hit.
NoLoad == <<[exc |-> "not read", value |-> None], NotRead>>
LoadOutcomes(c) ==
  IF c.filled THEN {NoLoad} ELSE { <<m, s>> : m \in ModelLoads, s \in SchemaLoads }

\* The decorated load_assets: the cached value on a hit, else the body's
\* return value, which is stored.  [cache, ret, ran, attempt]
CachedLoadAssets(c, outcome) ==
  IF c.filled THEN [cache |-> c, ret |-> c.value, ran |-> FALSE, attempt |-> NoLoad]
  ELSE LET r == load_assets(outcome[1], outcome[2])
       IN [cache |-> CacheStore(r), ret |-> r, ran |-> TRUE,
           attempt |-> Attempt(outcome[1], outcome[2])]

\* --------------------------------------------------------------- options
raw_districts(columns) == Filter(columns, DISTRICT_PREFIX, 1)
raw_commodities(columns) == Filter(columns, COMMODITY_PREFIX, 1)
DISTRICT_OPTIONS(columns) == <<SELECT_DISTRICT>> \o Sorted(raw_districts(columns))
COMMODITY_OPTIONS(columns) == <<SELECT_COMMODITY>> \o Sorted(raw_commodities(columns))

\* ---------------------------------------------------------------- pandas
\* A list, Series or DataFrame column holds its values: the sequence with
\* every element computed.
List(f) == f \o <<>>

\* pd.Series(0, index=columns): one zero per column, in column order.
SeriesZeros(columns) == List([i \in 1..Len(columns) |-> [col |-> columns[i], val |-> 0]])

\* series[label] = v: every entry with that label is set; a label the index
\* does not hold is appended (setting with enlargement).
SetItem(s, label, v) ==
  IF \E i \in 1..Len(s) : s[i].col = label
  THEN List([i \in 1..Len(s) |-> IF s[i].col = label THEN [col |-> label, val |-> v] ELSE s[i]])
  ELSE Append(s, [col |-> label, val |-> v])

\* FillInputData with the two "in ALL_COLUMNS" guards left out.
FillInputDataUnguarded(columns, district, commodity, year, month, grade) ==
  LET s0 == SeriesZeros(columns)
      s1 == SetItem(s0, <<"Year">>, year)
      s2 == SetItem(s1, <<"Month">>, month)
      s3 == SetItem(s2, <<"Day">>, 1)
      s4 == SetItem(s3, <<"Grade_Encoded">>, grade)
      s5 == SetItem(s4, PrefixName(DISTRICT_PREFIX, district), 1)
  IN SetItem(s5, PrefixName(COMMODITY_PREFIX, commodity), 1)

\* The numeric fields, then the two guarded one-hot flags.
FillInputData(columns, district, commodity, year, month, grade) ==
  LET s0 == SeriesZeros(columns)
      s1 == SetItem(s0, <<"Year">>, year)
      s2 == SetItem(s1, <<"Month">>, month)
      s3 == SetItem(s2, <<"Day">>, 1)
      s4 == SetItem(s3, <<"Grade_Encoded">>, grade)
      district_col_name == PrefixName(DISTRICT_PREFIX, district)
      commodity_col_name == PrefixName(COMMODITY_PREFIX, commodity)
      s5 == IF InList(district_col_name, columns) THEN SetItem(s4, district_col_name, 1) ELSE s4
  IN IF InList(commodity_col_name, columns) THEN SetItem(s5, commodity_col_name, 1) ELSE s5

\* input_data of get_monthly_forecast
MonthlyInputData(columns, district, commodity, year, month, grade) ==
  FillInputData(columns, district, commodity, year, month, grade)

\* input_data of show_prediction_dashboard
SpecificInputData(columns, district, commodity, year, month, grade) ==
  FillInputData(columns, district, commodity, year, month, grade)

RECURSIVE RowSum(_, _, _)
RowSum(model, row, i) ==
  IF i > Len(row) THEN 0
  ELSE (IF i = 2 THEN model.monthW * row[i].val
        ELSE IF i > Len(NUMERIC_COLUMNS) THEN model.catW * i * row[i].val
        ELSE 0) + RowSum(model, row, i + 1)

\* rf_model.predict(pd.DataFrame([input_data]))[0]: a function of the row's
\* values by position, and of nothing else.
Predict(model, row) == model.bias + RowSum(model, row, 1)

DigitChars == <<"0", "1", "2", "3", "4", "5", "6", "7", "8", "9">>

RECURSIVE Digits(_)
\* The decimal text of n >= 0, without padding.
Digits(n) == IF n < 10 THEN <<DigitChars[n + 1]>> ELSE Append(Digits(n \div 10), DigitChars[(n % 10) + 1])

\* f'{year}-{month}-01'
\* DateText over range(12): the months counted from 0.
DateTextFromZero(year, month) ==
  Digits(year) \o <<"-">> \o Digits(month - 1) \o <<"-", "0", "1">>

DateText(year, month) == Digits(year) \o <<"-">> \o Digits(month) \o <<"-", "0", "1">>

DigitValue ==
  [c \in {"0", "1", "2", "3", "4", "5", "6", "7", "8", "9"} |->
     CHOOSE d \in 0..9 : DigitChars[d + 1] = c]

IsNumber(s) == Len(s) >= 1 /\ \A i \in 1..Len(s) : s[i] \in DOMAIN DigitValue

RECURSIVE NumberFrom(_, _, _)
NumberFrom(s, i, acc) == IF i > Len(s) THEN acc ELSE NumberFrom(s, i + 1, 10 * acc + DigitValue[s[i]])

\* int(text)
Number(s) == NumberFrom(s, 1, 0)

NaT == [ok |-> FALSE, year |-> 0, month |-> 0, day |-> 0]

\* pd.to_datetime of a year-month-day text: the calendar date, or an error
\* when the text names no date.
to_datetime(text) ==
  LET parts == Split(text, "-")
  IN IF Len(parts) = 3 /\ \A i \in 1..3 : IsNumber(parts[i])
     THEN LET y == Number(parts[1])
              m == Number(parts[2])
              d == Number(parts[3])
          IN IF m \in 1..12 /\ d \in 1..28 /\ y \in 1..9999
             THEN [ok |-> TRUE, year |-> y, month |-> m, day |-> d]
             ELSE NaT
     ELSE NaT

\* ---------------------------------------------------------------- random
\* The k-th number random.random() gives on the stream of a seed, in 101ths.
Rand(seed, k) == ((seed + 1) * (2 * k + 1) * 37) % 101

\* random.uniform(a, b) = a + (b - a) * random.random(), as a price.
Uniform(seed, k, a, b) == a * PriceScale + (((b - a) * PriceScale * Rand(seed, k)) \div 101)

Seeds == 0..MaxSeed

\* The seeds that tell runs apart: all of them if the run drew a number.
SeedsOf(draws) == IF draws = 0 THEN {0} ELSE Seeds

\* random.sample(range(n), k): every k-sequence of distinct positions.
Samples(n, k) ==
  { p \in [1..k -> 1..n] : \A i, j \in 1..k : i # j => p[i] # p[j] }

\* ------------------------------------------------------ get_monthly_forecast
\* range(1, 13)
MonthRange == 1..12

\* A truth test that takes every model for missing.
AlwaysNoModel(model) == TRUE

\* if not rf_model
NoModel(model) == ~model.loaded

\* pd.to_datetime([f'{year}-{month}-01' for month in range(1, 13)])
MonthDates(year) == List([month \in MonthRange |-> to_datetime(DateText(year, month))])

\* [random.uniform(3000, 5000) + i * 50 for i in range(12)], from stream place k
FallbackPrices(seed, k) ==
  List([n \in 1..12 |-> Uniform(seed, k + n - 1, 3000, 5000) + (n - 1) * 50 * PriceScale])

\* pd.DataFrame of the four columns, one record per position.
Frame(months, prices, dates, district, rows, draws) ==
  [raised |-> \E n \in DOMAIN dates : ~dates[n].ok,
   rows |-> rows,
   draws |-> draws,
   df |-> List([n \in DOMAIN months |->
                  [Month |-> months[n], Price |-> prices[n], Date |-> dates[n],
                   District |-> district]])]

\* The dummy DataFrame of the fallback branch; draws start at stream place k.
FallbackFrame(district, year, seed, k) ==
  Frame(List([n \in 1..12 |-> n]), FallbackPrices(seed, k), MonthDates(year), district, <<>>, 12)

\* The loop over the months: one input row, one predict call, one record each.
MonthRows(columns, district, commodity, year, grade) ==
  List([month \in MonthRange |->
          MonthlyInputData(columns, district, commodity, year, month, grade)])

PredictRows(model, rows) == List([n \in DOMAIN rows |-> Predict(model, rows[n])])

ModelFrameOf(model, rows, dates, district) ==
  Frame(List([month \in MonthRange |-> month]), PredictRows(model, rows), dates, district, rows, 0)

ModelFrame(model, columns, district, commodity, year, grade) ==
  ModelFrameOf(model, MonthRows(columns, district, commodity, year, grade),
               MonthDates(year), district)

get_monthly_forecast(model, columns, district, commodity, year, grade, seed, k) ==
  IF NoModel(model) THEN FallbackFrame(district, year, seed, k)
  ELSE ModelFrame(model, columns, district, commodity, year, grade)

\* ------------------------------------------------------- get_comparison_data
\* [d for d in all_districts if d != main_district]
RECURSIVE OtherDistricts(_, _)
OtherDistricts(all_districts, main_district) ==
  IF all_districts = <<>> THEN <<>>
  ELSE IF Head(all_districts) # main_district
       THEN <<Head(all_districts)>> \o OtherDistricts(Tail(all_districts), main_district)
       ELSE OtherDistricts(Tail(all_districts), main_district)

\* min(2, len(other_districts))
NumToSample(other_districts) == IF Len(other_districts) < 2 THEN Len(other_districts) ELSE 2

\* random.sample(...) at the chosen positions, then append(main_district)
CompDistricts(other_districts, pick, main_district) ==
  List([i \in 1..Len(pick) |-> other_districts[pick[i]]]) \o <<main_district>>

\* if rf_model and df['Price'].iloc[0] == base_forecast_df['Price'].iloc[0]
NeedsOffset(model, df, base_forecast_df) ==
  model.loaded /\ df[1].Price = base_forecast_df[1].Price

\* df['Price'] = df['Price'] + offset
AddOffset(df, offset) == List([n \in 1..Len(df) |-> [df[n] EXCEPT !.Price = @ + offset]])

\* df['District'] = district
TagDistrict(df, district) == List([n \in 1..Len(df) |-> [df[n] EXCEPT !.District = district]])

\* Series.round(0): to the nearest rupee, a half to the even neighbour.
RoundHalfEven(p) ==
  LET q == p \div PriceScale
      r == p % PriceScale
  IN IF 2 * r < PriceScale THEN q
     ELSE IF 2 * r > PriceScale THEN q + 1
     ELSE IF q % 2 = 0 THEN q ELSE q + 1

\* The else branch of the loop, f being the district's fresh forecast.
OtherFrame(model, f, base_forecast_df, district, seed, k) ==
  LET shift == NeedsOffset(model, f.df, base_forecast_df)
      offset == IF shift THEN Uniform(seed, k + f.draws, -100, 100) ELSE 0
  IN [df |-> TagDistrict(IF shift THEN AddOffset(f.df, offset) ELSE f.df, district),
      rows |-> f.rows,
      draws |-> f.draws + (IF shift THEN 1 ELSE 0),
      raised |-> f.raised, offset |-> offset, shifted |-> shift, forecasts |-> 1,
      first |-> f.df[1].Price]

\* The frame of one district of the loop: the copy of the base forecast for
\* main_district, a fresh forecast (with the offset if needed) for another.
\* The loop body without its first branch: a fresh forecast for every district.
DistrictFrameRecomputed(model, columns, commodity, year, grade, main_district, base_forecast_df, district, seed, k) ==
  OtherFrame(model, get_monthly_forecast(model, columns, district, commodity, year,
                                         grade, seed, k),
             base_forecast_df, district, seed, k)

DistrictFrame(model, columns, commodity, year, grade, main_district, base_forecast_df, district, seed, k) ==
  IF district = main_district
  THEN [df |-> TagDistrict(base_forecast_df, district), rows |-> <<>>, draws |-> 0,
        raised |-> FALSE, offset |-> 0, shifted |-> FALSE, forecasts |-> 0,
        first |-> base_forecast_df[1].Price]
  ELSE OtherFrame(model, get_monthly_forecast(model, columns, district, commodity, year,
                                               grade, seed, k),
                  base_forecast_df, district, seed, k)

GetItem(row, label) == row[CHOOSE i \in 1..Len(row) : row[i].col = label].val

\* The predictor calls behind a list of input rows: whose, and for which month.
CallLog(district, rows) ==
  List([n \in 1..Len(rows) |-> [district |-> district, month |-> GetItem(rows[n], <<"Month">>)]])

RECURSIVE CompLoop(_, _, _, _, _, _, _, _, _, _, _)
\* for district in comp_districts, from position i on.
CompLoop(model, columns, commodity, year, grade, main_district, base_forecast_df, comp_districts, i, seed, k) ==
  IF i > Len(comp_districts)
  THEN [frames |-> <<>>, calls |-> <<>>, raised |-> FALSE, forecasts |-> 0, draws |-> 0]
  ELSE LET f == DistrictFrame(model, columns, commodity, year, grade, main_district,
                              base_forecast_df, comp_districts[i], seed, k)
           rest == CompLoop(model, columns, commodity, year, grade, main_district,
                            base_forecast_df, comp_districts, i + 1, seed, k + f.draws)
       IN [frames |-> <<[district |-> comp_districts[i], df |-> f.df,
                         offset |-> f.offset, shifted |-> f.shifted,
                         first |-> f.first]>> \o rest.frames,
           calls |-> CallLog(comp_districts[i], f.rows) \o rest.calls,
           raised |-> f.raised \/ rest.raised,
           forecasts |-> f.forecasts + rest.forecasts,
           draws |-> f.draws + rest.draws]

RECURSIVE Concat(_)
\* pd.concat(comparison_data)
Concat(frames) == IF frames = <<>> THEN <<>> ELSE Head(frames).df \o Concat(Tail(frames))

\* combined_df['Price'].round(0).astype(int)
RoundPrices(df) == List([n \in 1..Len(df) |-> [df[n] EXCEPT !.Price = RoundHalfEven(@)]])

get_comparison_data(model, columns, commodity, year, grade, main_district, all_districts, base_forecast_df, pick, seed) ==
  LET other_districts == OtherDistricts(all_districts, main_district)
      comp_districts == CompDistricts(other_districts, pick, main_district)
      loop == CompLoop(model, columns, commodity, year, grade, main_district,
                       base_forecast_df, comp_districts, 1, seed, 0)
  IN [comp_districts |-> comp_districts,
      frames |-> loop.frames,
      calls |-> loop.calls,
      forecasts |-> loop.forecasts,
      raised |-> loop.raised,
      draws |-> loop.draws,
      df |-> RoundPrices(Concat(loop.frames))]

\* The sample positions random.sample may return for this call.
Picks(all_districts, main_district) ==
  LET other_districts == OtherDistricts(all_districts, main_district)
  IN Samples(Len(other_districts), NumToSample(other_districts))

\* ----------------------------------------------------------------- state
VARIABLES
  cache,        \* st.cache_resource's entry for load_assets
  loader,       \* the body of load_assets: its runs (2: more than one), its last loads
  rf_model,     \* module global, as the last script run bound it
  ALL_COLUMNS,  \* module global, as the last script run bound it
  page,         \* st.session_state.page
  results,      \* st.session_state.results
  req,          \* what the last script run did with the forecast button
  call          \* the last direct call of a core function and what it returned

vars == <<cache, loader, rf_model, ALL_COLUMNS, page, results, req, call>>

\* st.session_state.results = {}
EmptyResults == <<>>

\* not st.session_state.results
IsEmpty(r) == DOMAIN r = {}

IdleReq ==
  [results_clicked |-> FALSE, outcome |-> "idle", district |-> <<>>, commodity |-> <<>>,
   input_data |-> <<>>, calls |-> <<>>, forecasts |-> 0, comparisons |-> 0,
   comp_districts |-> <<>>]

\* The run a button started: st.button returns True for that button alone;
\* the session keeps whether it was the Results button of the navbar.
Clicked(button) == [IdleReq EXCEPT !.results_clicked = (button = "results")]

IdleCall ==
  [fn |-> "none", district |-> <<>>, commodity |-> <<>>, year |-> 0, month |-> 0,
   grade |-> 0, all_districts |-> <<>>, fallback |-> FALSE, raised |-> FALSE,
   rows |-> <<>>, price |-> 0, df |-> <<>>, base |-> <<>>, comp_districts |-> <<>>,
   frames |-> <<>>, predicts |-> 0, repeated |-> FALSE, prev |-> <<>>]

\* ---------------------------------------------------------------- inputs
\* Arguments of a direct call: the ends of the year slider with the ends of
\* the grade radio, and the ends of the month slider.
YearGrades == { [year |-> 2024, grade |-> 1], [year |-> 2030, grade |-> 3] }
SliderMonths == {1, 12}

\* What the dashboard's sliders and radio hold when the button is pressed:
\* their defaults (value=2025, value=1, index=2), or the far end of each.
\* FnSpec calls the core functions with the values of YearGrades and SliderMonths.
WidgetValues == { [year |-> 2025, month |-> 1, grade |-> 3],
                  [year |-> 2030, month |-> 12, grade |-> 1] }

\* A district and a commodity some schemas know,
\* the value the option derivation cuts out of District_New_District_East,
\* and values no schema knows.
DistrictArgs == { <<"Pune">>, <<"New_">>, <<"Goa">> }
CommodityArgs == { <<"Wheat">>, <<"Tea">> }

\* The lists all_districts of a direct call, up to the order of their entries:
\* random.sample draws positions, and every draw of positions is taken.
DistrictLists ==
  { l \in UNION { [1..n -> DistrictArgs] : n \in 0..MaxDistricts } :
      \A i \in 1..(Len(l) - 1) : ~StrLess(l[i + 1], l[i]) }

Elements(l) == { l[i] : i \in 1..Len(l) }

\* ------------------------------------------------------------ script runs
\* Lines 116-128 of a script run: the (cached) load and the bound globals.
ScriptTop(la) ==
  /\ cache' = la.cache
  /\ loader' = IF la.ran
               THEN [runs |-> IF loader.runs < 2 THEN loader.runs + 1 ELSE 2,
                     attempt |-> la.attempt]
               ELSE loader
  /\ rf_model' = la.ret.rf_model
  /\ ALL_COLUMNS' = la.ret.ALL_COLUMNS

\* The run st.rerun() starts: show_results_screen sends a session without a
\* stored price back to the dashboard, every other page is drawn as it is.
Render(p, r) ==
  IF p = "results" /\ (IsEmpty(r) \/ "price" \notin DOMAIN r) THEN "dashboard" ELSE p

\* The state after the first script run of the process.
Init ==
  \E outcome \in LoadOutcomes(EmptyCache) :
    LET la == CachedLoadAssets(EmptyCache, outcome)
    IN /\ cache = la.cache
       /\ loader = [runs |-> IF la.ran THEN 1 ELSE 0, attempt |-> la.attempt]
       /\ rf_model = la.ret.rf_model
       /\ ALL_COLUMNS = la.ret.ALL_COLUMNS
       /\ page = "welcome"
       /\ results = EmptyResults
       /\ req = IdleReq
       /\ call = IdleCall

\* A widget other than a button changed: the script runs and draws the page.
Rerun ==
  \E outcome \in LoadOutcomes(cache) :
    /\ ScriptTop(CachedLoadAssets(cache, outcome))
    /\ page' = Render(page, results)
    /\ req' = IdleReq
    /\ UNCHANGED <<results, call>>

\* The start button of the welcome screen.
ClickStart ==
  /\ page = "welcome"
  /\ \E outcome \in LoadOutcomes(cache) : ScriptTop(CachedLoadAssets(cache, outcome))
  /\ page' = Render("dashboard", results)
  /\ req' = Clicked("start")
  /\ UNCHANGED <<results, call>>

\* draw_navbar: Home
NavHome ==
  /\ page \in {"dashboard", "results"}
  /\ \E outcome \in LoadOutcomes(cache) : ScriptTop(CachedLoadAssets(cache, outcome))
  /\ page' = Render("welcome", results)
  /\ req' = Clicked("home")
  /\ UNCHANGED <<results, call>>

\* draw_navbar: Dashboard
NavDashboard ==
  /\ page \in {"dashboard", "results"}
  /\ \E outcome \in LoadOutcomes(cache) : ScriptTop(CachedLoadAssets(cache, outcome))
  /\ page' = Render("dashboard", results)
  /\ req' = Clicked("dashboard")
  /\ UNCHANGED <<results, call>>

\* The Results button without disabled=disabled_state.
NavResultsEnabled ==
  /\ page \in {"dashboard", "results"}
  /\ \E outcome \in LoadOutcomes(cache) : ScriptTop(CachedLoadAssets(cache, outcome))
  /\ page' = Render("results", results)
  /\ req' = Clicked("results")
  /\ UNCHANGED <<results, call>>

\* draw_navbar: Results, disabled while results is empty
NavResults ==
  /\ page \in {"dashboard", "results"}
  /\ ~IsEmpty(results)
  /\ \E outcome \in LoadOutcomes(cache) : ScriptTop(CachedLoadAssets(cache, outcome))
  /\ page' = Render("results", results)
  /\ req' = Clicked("results")
  /\ UNCHANGED <<results, call>>

\* A validation that one real selection satisfies.
IsValidSelectionEither(selected_district, selected_commodity) ==
  (selected_district # SELECT_DISTRICT) \/ (selected_commodity # SELECT_COMMODITY)

\* is_valid_selection
IsValidSelection(selected_district, selected_commodity) ==
  (selected_district # SELECT_DISTRICT) /\ (selected_commodity # SELECT_COMMODITY)

\* What the prediction logic leaves behind: the record stored in the session
\* and what was called on the way.
Outcome(d, c, year, month, grade, input_data, predicted_price_specific, forecast_df, comparison_df) ==
  [raised |-> forecast_df.raised \/ comparison_df.raised,
   draws |-> forecast_df.draws + comparison_df.draws,
   input_data |-> input_data,
   calls |-> CallLog(d, <<input_data>>) \o CallLog(d, forecast_df.rows)
               \o comparison_df.calls,
   forecasts |-> 1 + comparison_df.forecasts,
   comp_districts |-> comparison_df.comp_districts,
   results |-> [price |-> predicted_price_specific,
                forecast_df |-> forecast_df.df,
                comparison_df |-> comparison_df.df,
                district |-> d, commodity |-> c,
                year |-> year, month |-> month, grade |-> grade]]

\* The comparison of the prediction logic, given the forecast.
Compared(model, columns, d, c, year, month, grade, pick, seed, input_data, forecast_df) ==
  Outcome(d, c, year, month, grade, input_data, Predict(model, input_data), forecast_df,
          get_comparison_data(model, columns, c, year, grade, d, raw_districts(columns),
                              forecast_df.df, pick, seed))

\* The prediction logic of show_prediction_dashboard, after the two checks:
\* the specific prediction, the 12-month forecast, the comparison.
Prediction(model, columns, d, c, year, month, grade, pick, seed) ==
  Compared(model, columns, d, c, year, month, grade, pick, seed,
           SpecificInputData(columns, d, c, year, month, grade),
           get_monthly_forecast(model, columns, d, c, year, grade, seed, 0))

\* The forecast button of the dashboard.
PressForecast ==
  /\ page = "dashboard"
  /\ \E outcome \in LoadOutcomes(cache) :
       LET la == CachedLoadAssets(cache, outcome)
           model == la.ret.rf_model
           columns == la.ret.ALL_COLUMNS
       IN /\ ScriptTop(la)
          /\ \E d \in Elements(DISTRICT_OPTIONS(columns)),
                c \in Elements(COMMODITY_OPTIONS(columns)) :
               LET sel == [Clicked("forecast") EXCEPT !.district = d, !.commodity = c]
               IN IF ~IsValidSelection(d, c)
                  THEN /\ req' = [sel EXCEPT !.outcome = "invalid"]
                       /\ page' = page
                       /\ results' = results
                  ELSE IF NoModel(model)
                  THEN /\ req' = [sel EXCEPT !.outcome = "no_model"]
                       /\ page' = page
                       /\ results' = results
                  ELSE \E w \in WidgetValues, pick \in Picks(raw_districts(columns), d) :
                       \E seed \in Seeds :
                       \E p \in {Prediction(model, columns, d, c, w.year, w.month, w.grade,
                                            pick, seed)} :
                         /\ seed \in SeedsOf(p.draws)
                         /\ LET done == [sel EXCEPT !.input_data = p.input_data,
                                                    !.calls = p.calls,
                                                    !.forecasts = p.forecasts,
                                                    !.comparisons = 1,
                                                    !.comp_districts = p.comp_districts]
                            IN IF p.raised
                               THEN /\ req' = [done EXCEPT !.outcome = "error"]
                                    /\ page' = page
                                    /\ results' = results
                               ELSE /\ req' = [done EXCEPT !.outcome = "stored"]
                                    /\ results' = p.results
                                    /\ page' = Render("results", p.results)
  /\ UNCHANGED call

Next == Rerun \/ ClickStart \/ NavHome \/ NavDashboard \/ NavResults \/ PressForecast

Spec == Init /\ [][Next]_vars

\* ------------------------------------------------- the core functions, called
\* FnSpec observes one chain of direct calls: a first call of a core function
\* in the state the first script run left, then calls that follow it up.
ForecastCall(district, commodity, year, grade, f) ==
  [IdleCall EXCEPT !.fn = "get_monthly_forecast", !.district = district,
                   !.commodity = commodity, !.year = year, !.grade = grade,
                   !.fallback = ~rf_model.loaded, !.raised = f.raised,
                   !.rows = f.rows, !.df = f.df, !.predicts = Len(f.rows)]

\* get_monthly_forecast(district, commodity, year, grade)
CallMonthlyForecast ==
  /\ call.fn = "none"
  /\ \E district \in DistrictArgs, commodity \in CommodityArgs, yg \in YearGrades :
       \E seed \in Seeds :
       \E f \in {get_monthly_forecast(rf_model, ALL_COLUMNS, district, commodity, yg.year,
                                      yg.grade, seed, 0)} :
         /\ seed \in SeedsOf(f.draws)
         /\ call' = ForecastCall(district, commodity, yg.year, yg.grade, f)
  /\ UNCHANGED <<cache, loader, rf_model, ALL_COLUMNS, page, results, req>>

\* The same call of get_monthly_forecast, made once more.
RepeatMonthlyForecast ==
  /\ call.fn = "get_monthly_forecast"
  /\ \E seed \in Seeds :
       \E f \in {get_monthly_forecast(rf_model, ALL_COLUMNS, call.district, call.commodity,
                                      call.year, call.grade, seed, 0)} :
         /\ seed \in SeedsOf(f.draws)
         /\ call' = [ForecastCall(call.district, call.commodity, call.year, call.grade, f)
                       EXCEPT !.repeated = TRUE, !.prev = call.df]
  /\ UNCHANGED <<cache, loader, rf_model, ALL_COLUMNS, page, results, req>>

ComparisonCall(all_districts, c) ==
  [IdleCall EXCEPT !.fn = "get_comparison_data", !.district = call.district,
                   !.commodity = call.commodity, !.year = call.year,
                   !.grade = call.grade, !.all_districts = all_districts,
                   !.fallback = ~rf_model.loaded, !.raised = c.raised,
                   !.base = call.df, !.comp_districts = c.comp_districts,
                   !.frames = c.frames, !.df = c.df, !.predicts = Len(c.calls)]

\* get_comparison_data(commodity, year, grade, main_district, all_districts,
\* base_forecast_df), the base forecast being the one a first call returned.
CallComparison ==
  /\ call.fn = "get_monthly_forecast"
  /\ ~call.repeated
  /\ ~call.raised
  /\ \E all_districts \in DistrictLists :
       \E pick \in Picks(all_districts, call.district) :
       \E seed \in Seeds :
       \E c \in {get_comparison_data(rf_model, ALL_COLUMNS, call.commodity, call.year,
                                     call.grade, call.district, all_districts, call.df,
                                     pick, seed)} :
         /\ seed \in SeedsOf(c.draws)
         /\ call' = ComparisonCall(all_districts, c)
  /\ UNCHANGED <<cache, loader, rf_model, ALL_COLUMNS, page, results, req>>

\* The specific prediction of the dashboard (its input row and its predict
\* call), which runs only with a model.
CallSpecificPrediction ==
  /\ call.fn = "none"
  /\ ~NoModel(rf_model)
  /\ \E district \in DistrictArgs, commodity \in CommodityArgs, yg \in YearGrades,
        month \in SliderMonths :
       \E row \in {SpecificInputData(ALL_COLUMNS, district, commodity, yg.year, month,
                                     yg.grade)} :
         call' = [IdleCall EXCEPT !.fn = "input_data", !.district = district,
                                  !.commodity = commodity, !.year = yg.year, !.month = month,
                                  !.grade = yg.grade, !.rows = <<row>>,
                                  !.price = Predict(rf_model, row), !.predicts = 1]
  /\ UNCHANGED <<cache, loader, rf_model, ALL_COLUMNS, page, results, req>>

FnNext ==
  CallMonthlyForecast \/ RepeatMonthlyForecast \/ CallComparison \/ CallSpecificPrediction

FnSpec == Init /\ [][FnNext]_vars

\* ------------------------------------------------------------- properties
\* The first day of month m of a year.
FirstOf(year, m) == [ok |-> TRUE, year |-> year, month |-> m, day |-> 1]

\* C1: in model mode and in fallback mode alike, get_monthly_forecast returns
\* without raising exactly 12 records; the n-th has Month n (so the months
\* are 1..12 ascending, none repeated or missing), Date the first day of
\* month n of the year passed in, and District the district passed in.
C1_TwelveMonthlyRecords ==
  call.fn = "get_monthly_forecast" =>
    /\ ~call.raised
    /\ Len(call.df) = 12
    /\ \A n \in 1..Len(call.df) :
         /\ call.df[n].Month = n
         /\ call.df[n].Date = FirstOf(call.year, n)
         /\ call.df[n].District = call.district

\* A model-mode forecast for the last year of the slider has come back.
C1_Witness ==
  /\ call.fn = "get_monthly_forecast"
  /\ ~call.fallback
  /\ call.year = 2030
  /\ Len(call.df) = 12
  /\ call.df[12].Date = FirstOf(2030, 12)

\* The columns of a row that start with the prefix and hold a 1.
Flagged(row, prefix) ==
  { i \in 1..Len(row) : StartsWith(row[i].col, prefix) /\ row[i].val = 1 }

\* One categorical group of a row: the flag of prefix + value is the only 1 of
\* the group when that name is a schema column, and the group has no 1 otherwise.
GroupOk(row, columns, prefix, value) ==
  IF InList(PrefixName(prefix, value), columns)
  THEN /\ Cardinality(Flagged(row, prefix)) = 1
       /\ \A i \in Flagged(row, prefix) : row[i].col = PrefixName(prefix, value)
  ELSE Flagged(row, prefix) = {}

\* A feature vector: one entry per schema column in schema order, the four
\* numeric fields from the input, the two groups, 0 everywhere else.
RowOk(row, columns, district, commodity, year, month, grade) ==
  /\ Len(row) = Len(columns)
  /\ \A i \in 1..Len(row) : row[i].col = columns[i]
  /\ GetItem(row, <<"Year">>) = year
  /\ GetItem(row, <<"Month">>) = month
  /\ GetItem(row, <<"Day">>) = 1
  /\ GetItem(row, <<"Grade_Encoded">>) = grade
  /\ GroupOk(row, columns, DISTRICT_PREFIX, district)
  /\ GroupOk(row, columns, COMMODITY_PREFIX, commodity)
  /\ \A i \in 1..Len(row) :
       (/\ row[i].col \notin Elements(NUMERIC_COLUMNS)
        /\ i \notin Flagged(row, DISTRICT_PREFIX)
        /\ i \notin Flagged(row, COMMODITY_PREFIX)) => row[i].val = 0

\* C2: every feature vector built for a prediction, by the monthly loop and by
\* the dashboard, has Year, Month, Day = 1 and Grade_Encoded from the input,
\* exactly one 1 in the District_ group when District_<district> is a schema
\* column and none when it is not, likewise in the Commodity_ group, and 0 in
\* every other column; an unknown value raises nothing and leaves the other
\* group's flag as it is.
C2_FeatureVector ==
  /\ (call.fn = "get_monthly_forecast" /\ ~call.fallback) =>
       /\ ~call.raised
       /\ Len(call.rows) = 12
       /\ \A n \in 1..Len(call.rows) :
            RowOk(call.rows[n], ALL_COLUMNS, call.district, call.commodity, call.year, n,
                  call.grade)
  /\ call.fn = "input_data" =>
       /\ ~call.raised
       /\ Len(call.rows) = 1
       /\ RowOk(call.rows[1], ALL_COLUMNS, call.district, call.commodity, call.year,
                call.month, call.grade)

\* A vector for a district of the schema and a commodity the schema lacks,
\* the schema holding another commodity: the district flag is set alone.
C2_Witness ==
  /\ call.fn = "input_data"
  /\ call.district = <<"Pune">>
  /\ call.commodity = <<"Tea">>
  /\ InList(<<COMMODITY_PREFIX, "Wheat">>, ALL_COLUMNS)
  /\ Cardinality(Flagged(call.rows[1], DISTRICT_PREFIX)) = 1
  /\ Flagged(call.rows[1], COMMODITY_PREFIX) = {}

\* The districts of the records of a DataFrame.
DistrictsOf(df) == { df[n].District : n \in 1..Len(df) }

\* The months of the records a district has in a DataFrame, in record order.
RECURSIVE MonthsOf(_, _)
MonthsOf(df, district) ==
  IF df = <<>> THEN <<>>
  ELSE IF Head(df).District = district
       THEN <<Head(df).Month>> \o MonthsOf(Tail(df), district)
       ELSE MonthsOf(Tail(df), district)

\* C3: for every list all_districts and every main_district,
\* get_comparison_data raises nothing and returns a bundle whose districts are
\* main_district and exactly min(2, k) others taken from all_districts, k
\* being the number of entries of all_districts other than main_district; no
\* district is processed twice, each contributing one sequence of 12 records.
C3_ComparisonDistricts ==
  call.fn = "get_comparison_data" =>
    LET main_district == call.district
        k == Len(OtherDistricts(call.all_districts, main_district))
        others == DistrictsOf(call.df) \ {main_district}
    IN /\ ~call.raised
       /\ main_district \in DistrictsOf(call.df)
       /\ others \subseteq Elements(call.all_districts)
       /\ Cardinality(others) = IF k < 2 THEN k ELSE 2
       /\ \A i, j \in 1..Len(call.comp_districts) :
            i # j => call.comp_districts[i] # call.comp_districts[j]
       /\ \A d \in DistrictsOf(call.df) :
            MonthsOf(call.df, d) = <<1, 2, 3, 4, 5, 6, 7, 8, 9, 10, 11, 12>>

\* C4: when loading the model or the schema failed, each option list holds a
\* value besides its sentinel, and get_monthly_forecast returns, without
\* raising and without a predictor call, 12 records with months 1..12, a
\* price, the date of the month and the district.
C4_FallbackServes ==
  (loader.attempt[1].exc # "none" \/ loader.attempt[2].exc # "none") =>
    /\ \E v \in Elements(DISTRICT_OPTIONS(ALL_COLUMNS)) : v # SELECT_DISTRICT
    /\ \E v \in Elements(COMMODITY_OPTIONS(ALL_COLUMNS)) : v # SELECT_COMMODITY
    /\ call.fn = "get_monthly_forecast" =>
         /\ ~call.raised
         /\ call.predicts = 0
         /\ call.rows = <<>>
         /\ Len(call.df) = 12
         /\ \A n \in 1..Len(call.df) :
              /\ call.df[n].Month = n
              /\ call.df[n].Price \in (3000 * PriceScale)..(5550 * PriceScale)
              /\ call.df[n].Date = FirstOf(call.year, n)
              /\ call.df[n].District = call.district

\* The model file was missing and a forecast was asked for all the same.
C4_Witness ==
  /\ loader.attempt[1].exc = "FileNotFoundError"
  /\ call.fn = "get_monthly_forecast"
  /\ call.fallback
  /\ call.predicts = 0
  /\ Len(call.df) = 12
  /\ call.df[1].Price # call.df[2].Price - 50 * PriceScale

\* C5: whatever the two loads did, load_assets returned without propagating
\* an exception, and the globals are the loaded model with the loaded schema
\* when both loads succeeded, no model with the hardcoded schema otherwise.
C5_LoadOutcome ==
  LET modelLoad == loader.attempt[1]
      schemaLoad == loader.attempt[2]
  IN /\ loader.runs >= 1
     /\ ~cache.value.raised
     /\ IF modelLoad.exc = "none" /\ schemaLoad.exc = "none"
        THEN /\ rf_model = modelLoad.value
             /\ rf_model.loaded
             /\ ALL_COLUMNS = schemaLoad.value
        ELSE /\ rf_model = None
             /\ ALL_COLUMNS = FALLBACK_COLUMNS
             /\ schemaLoad.exc \in {"not read", "FileNotFoundError", "Exception"}

\* The model loaded and the schema then failed with an exception other than
\* a missing file: the loaded model was dropped.
C5_Witness ==
  /\ loader.attempt[1].exc = "none"
  /\ loader.attempt[1].value.loaded
  /\ loader.attempt[2].exc = "Exception"
  /\ rf_model = None
  /\ ALL_COLUMNS = FALLBACK_COLUMNS

\* C6: across the script runs of one process the body of load_assets runs
\* once, at the first; every later run binds the cached first result, and a
\* process whose first load failed has no model in any later state.
C6_LoadOnce ==
  [][/\ loader.runs = 1
     /\ loader' = loader
     /\ cache' = cache
     /\ rf_model' = cache.value.rf_model
     /\ ALL_COLUMNS' = cache.value.ALL_COLUMNS
     /\ <<rf_model', ALL_COLUMNS'>> = <<rf_model, ALL_COLUMNS>>
     /\ ~rf_model.loaded => ~rf_model'.loaded]_vars

\* The first load failed, and script runs later the forecast button was
\* pressed with real selections: still no model, still one run of the body.
C6_Witness ==
  /\ loader.runs = 1
  /\ loader.attempt[1].exc # "none"
  /\ ~rf_model.loaded
  /\ page = "dashboard"
  /\ req.outcome = "no_model"

\* C7: a press of the forecast button with a sentinel in the district or in
\* the commodity selection is turned down as invalid: no feature vector, no
\* predictor call, no get_monthly_forecast, no get_comparison_data, and
\* session_state.results and session_state.page as they were.
C7_SentinelRejected ==
  [][(/\ req'.outcome # "idle"
      /\ (req'.district = SELECT_DISTRICT \/ req'.commodity = SELECT_COMMODITY))
     => /\ req'.outcome = "invalid"
        /\ req'.input_data = <<>>
        /\ req'.calls = <<>>
        /\ req'.forecasts = 0
        /\ req'.comparisons = 0
        /\ results' = results
        /\ page' = page]_vars

\* With a model and an earlier result in the session, a press with a real
\* district and the commodity sentinel was turned down.
C7_Witness ==
  /\ req.outcome = "invalid"
  /\ req.district = <<"Pune">>
  /\ req.commodity = SELECT_COMMODITY
  /\ rf_model.loaded
  /\ ~IsEmpty(results)
  /\ page = "dashboard"

Prefixed(columns, prefix) == { i \in 1..Len(columns) : StartsWith(columns[i], prefix) }

\* One group's options against the schema: every prefixed column comes back
\* from one option, and every option besides the sentinel names a column.
GroupRoundTrip(columns, prefix, options, sentinel) ==
  /\ Len(options) - 1 = Cardinality(Prefixed(columns, prefix))
  /\ \A i \in Prefixed(columns, prefix) :
       \E v \in Elements(options) \ {sentinel} : PrefixName(prefix, v) = columns[i]
  /\ \A v \in Elements(options) \ {sentinel} : InList(PrefixName(prefix, v), columns)

\* C9: the option derivation is a round trip with the one-hot naming: each
\* District_ column yields an option v with 'District_' + v that column, each
\* Commodity_ column likewise, so every option besides the sentinels names a
\* schema column, also when a value itself contains 'District_' or 'Commodity_'.
C9_OptionsRoundTrip ==
  /\ GroupRoundTrip(ALL_COLUMNS, DISTRICT_PREFIX, DISTRICT_OPTIONS(ALL_COLUMNS),
                    SELECT_DISTRICT)
  /\ GroupRoundTrip(ALL_COLUMNS, COMMODITY_PREFIX, COMMODITY_OPTIONS(ALL_COLUMNS),
                    SELECT_COMMODITY)

C12_FallbackRequestStored ==
  (/\ req.outcome # "idle"
   /\ ~rf_model.loaded
   /\ req.district # SELECT_DISTRICT
   /\ req.commodity # SELECT_COMMODITY)
  => /\ req.outcome = "stored"
     /\ page = "results"
     /\ ~IsEmpty(results)
     /\ "price" \in DOMAIN results
     /\ results.district = req.district
     /\ results.commodity = req.commodity

\* The keys of a complete result record.
ResultKeys ==
  {"price", "forecast_df", "comparison_df", "district", "commodity", "year", "month", "grade"}

\* A session as a finished script run may leave it: a page of the three, the
\* results screen drawn only over a stored price, results empty or complete,
\* and the Results button clicked only with results to show.
SessionOk(p, r, q) ==
  /\ p \in {"welcome", "dashboard", "results"}
  /\ p = "results" => (~IsEmpty(r) /\ "price" \in DOMAIN r)
  /\ IsEmpty(r) \/ DOMAIN r = ResultKeys
  /\ q.results_clicked => ~IsEmpty(r)

\* C13: after any sequence of Start, Home, Dashboard and Results clicks and
\* forecast requests, the page is 'welcome', 'dashboard' or 'results'; the
\* results screen is drawn only with a stored 'price'; the Results button is
\* clickable only with results, and no run ends on page 'results' with empty
\* results; results changes only to a complete record and is never emptied.
C13_SessionInvariants ==
  [][/\ SessionOk(page, results, req)
     /\ SessionOk(page', results', req')
     /\ results' # results => (DOMAIN results' = ResultKeys /\ req'.outcome = "stored")
     /\ ~IsEmpty(results) => ~IsEmpty(results')]_vars

\* With a result stored, Home was clicked and then, back on the dashboard,
\* the Results button: the results screen is drawn over the stored price.
C13_Witness ==
  /\ page = "results"
  /\ req.results_clicked
  /\ "price" \in DOMAIN results
  /\ results.month = 12

====
